---- MODULE Spec2Model ----
(***************************************************************************)
(* A model of openvrml::bounding_sphere (bounding_volume.cpp): the sphere  *)
(* with its two sentinel radii, the point and sphere merges, enclose, the  *)
(* two transforms and the frustum test.                                    *)
(*                                                                         *)
(* Numbers.  The code computes in binary32.  The model computes the same   *)
(* expressions, operation by operation, in exact rational arithmetic: a    *)
(* number is a pair <<n, d>> in lowest terms with d > 0.  A square root    *)
(* that is not rational has no such pair; it is the marker Irrational     *)
(* (<<0, 0>>), which every operation propagates, and every action is       *)
(* confined to the inputs on which no Irrational appears in the result.    *)
(* Rounding to 24 bits is therefore outside the model.                     *)
(***************************************************************************)
EXTENDS Integers, Sequences, FiniteSets, TLC

VARIABLES center_, radius_, op, arg, pre, again, code, invoked, steps

vars == <<center_, radius_, op, arg, pre, again, code, invoked, steps>>

----------------------------------------------------------------------------
(* Rational arithmetic: the float operators of the source, made exact.     *)

Abs(n) == IF n < 0 THEN -n ELSE n

RECURSIVE Gcd(_, _)
Gcd(a, b) == IF b = 0 THEN a ELSE Gcd(b, a % b)

Irrational == <<0, 0>>

\* n/d in lowest terms, the sign carried by the numerator.
Norm(n, d) ==
    IF d = 0 THEN Irrational
    ELSE LET g == Gcd(Abs(n), Abs(d))
             s == IF d < 0 THEN -1 ELSE 1
         IN  <<(s * n) \div g, (s * d) \div g>>

Q(n) == <<n, 1>>

IsNum(a) == a[2] # 0

Add(a, b) == IF IsNum(a) /\ IsNum(b) THEN Norm(a[1] * b[2] + b[1] * a[2], a[2] * b[2])
             ELSE Irrational

Neg(a) == IF IsNum(a) THEN <<-a[1], a[2]>> ELSE Irrational

Sub(a, b) == Add(a, Neg(b))

Mul(a, b) == IF IsNum(a) /\ IsNum(b) THEN Norm(a[1] * b[1], a[2] * b[2])
             ELSE Irrational

\* a / b; a division by zero yields no number (the code divides by dn only
\* after testing that dn is not 0).
Div(a, b) == IF IsNum(a) /\ IsNum(b) /\ b[1] # 0 THEN Norm(a[1] * b[2], a[2] * b[1])
             ELSE Irrational

\* a < b; like a comparison with a NaN, false when either side is no number.
Less(a, b) == IsNum(a) /\ IsNum(b) /\ a[1] * b[2] < b[1] * a[2]

Leq(a, b) == IsNum(a) /\ IsNum(b) /\ a[1] * b[2] <= b[1] * a[2]

\* The integer square root of n >= 0, by bisection on lo..hi.
RECURSIVE ISqrtIn(_, _, _)
ISqrtIn(n, lo, hi) ==
    IF lo >= hi THEN lo
    ELSE LET mid == (lo + hi + 1) \div 2
         IN  IF mid * mid <= n THEN ISqrtIn(n, mid, hi) ELSE ISqrtIn(n, lo, mid - 1)

ISqrt(n) == ISqrtIn(n, 0, IF n < 46340 THEN n ELSE 46340)

IsSquare(n) == n >= 0 /\ ISqrt(n) * ISqrt(n) = n

\* sqrt(a): the rational root when a has one, Irrational otherwise.
Sqrt(a) == IF IsNum(a) /\ IsSquare(a[1]) /\ IsSquare(a[2])
           THEN <<ISqrt(a[1]), ISqrt(a[2])>>
           ELSE Irrational

----------------------------------------------------------------------------
(* vec3f and mat4f: the primitives bounding_volume.cpp uses.               *)

vec3f(x, y, z) == <<x, y, z>>

\* A vec3f with integer components.
V(x, y, z) == <<Q(x), Q(y), Q(z)>>

IsVec(v) == IsNum(v[1]) /\ IsNum(v[2]) /\ IsNum(v[3])

\* vec3f::dot
dot(a, b) == Add(Add(Mul(a[1], b[1]), Mul(a[2], b[2])), Mul(a[3], b[3]))

\* vec3f::length
length(v) == Sqrt(dot(v, v))

\* vec3f operator+, operator-, operator/ (by a scalar)
VAdd(a, b) == <<Add(a[1], b[1]), Add(a[2], b[2]), Add(a[3], b[3])>>

VSub(a, b) == <<Sub(a[1], b[1]), Sub(a[2], b[2]), Sub(a[3], b[3])>>

VDiv(a, k) == <<Div(a[1], k), Div(a[2], k), Div(a[3], k)>>

\* vec3f::operator*=(const mat4f &): the row vector (x, y, z, 1) times t;
\* t is a 4x4 tuple of rows, t[i+1][j+1] being the source's t[i][j].
VMulMat(v, t) ==
    <<Add(Add(Add(Mul(v[1], t[1][1]), Mul(v[2], t[2][1])), Mul(v[3], t[3][1])), t[4][1]),
      Add(Add(Add(Mul(v[1], t[1][2]), Mul(v[2], t[2][2])), Mul(v[3], t[3][2])), t[4][2]),
      Add(Add(Add(Mul(v[1], t[1][3]), Mul(v[2], t[2][3])), Mul(v[3], t[3][3])), t[4][3])>>

\* openvrml_::fequal<float>: equality within the float tolerance.  Every
\* difference of the model's exact values is 0 or far above that tolerance,
\* so the test is equality.
fequal(a, b) == IsNum(a) /\ IsNum(b) /\ a = b

----------------------------------------------------------------------------
(* bounding_sphere: center_ and radius_, here the record                   *)
(* [center |-> vec3f, radius |-> number].                                  *)

\* std::numeric_limits<float>::max(), the radius of a maximized sphere:
\* the largest number of the model's integers stands for the largest float.
FLT_MAX == 2147483647

\* The radius of an unset sphere, the literal -1.0f of the source.
UNSET == -1

Sphere(c, r) == [center |-> c, radius |-> r]

\* bounding_sphere::bounding_sphere(): radius_(-1.0); vec3f() is the origin.
bounding_sphere == Sphere(V(0, 0, 0), Q(UNSET))

\* bounding_sphere::maximized
maximized(s) == IF s.radius = Q(FLT_MAX) THEN TRUE ELSE FALSE

\* maximize() setting the center and leaving the radius as it was.
maximize_center_only(s) == Sphere(vec3f(Q(0), Q(0), Q(0)), s.radius)

\* bounding_sphere::maximize
maximize(s) == Sphere(vec3f(Q(0), Q(0), Q(0)), Q(FLT_MAX))

\* radius_ == -1.0f
unset(s) == s.radius = Q(UNSET)

\* extend(const vec3f &) without its test `if (dn < r0) return`.
extend_p_untested(s, p) ==
    IF maximized(s) THEN s
    ELSE IF unset(s) THEN Sphere(p, Q(0))
    ELSE LET r0 == s.radius
             xn == Sub(p[1], s.center[1])
             yn == Sub(p[2], s.center[2])
             zn == Sub(p[3], s.center[3])
             dn == Sqrt(Add(Add(Mul(xn, xn), Mul(yn, yn)), Mul(zn, zn)))
             cr == Div(Add(dn, r0), Q(2))
             tmp == Div(Sub(cr, r0), dn)
         IN  IF fequal(dn, Q(0)) THEN s
             ELSE Sphere(vec3f(Add(s.center[1], Mul(xn, tmp)),
                               Add(s.center[2], Mul(yn, tmp)),
                               Add(s.center[3], Mul(zn, tmp))), cr)

\* bounding_sphere::extend(const vec3f & p)
extend_p(s, p) ==
    IF maximized(s) THEN s
    ELSE IF unset(s) THEN Sphere(p, Q(0))
    ELSE LET x0 == s.center[1]
             y0 == s.center[2]
             z0 == s.center[3]
             r0 == s.radius
             xn == Sub(p[1], x0)
             yn == Sub(p[2], y0)
             zn == Sub(p[3], z0)
             dn == Sqrt(Add(Add(Mul(xn, xn), Mul(yn, yn)), Mul(zn, zn)))
             cr == Div(Add(dn, r0), Q(2))
             tmp == Div(Sub(cr, r0), dn)
             cx == Add(x0, Mul(xn, tmp))
             cy == Add(y0, Mul(yn, tmp))
             cz == Add(z0, Mul(zn, tmp))
         IN  IF fequal(dn, Q(0)) THEN s
             ELSE IF Less(dn, r0) THEN s
             ELSE Sphere(vec3f(cx, cy, cz), cr)

\* extend(const bounding_sphere &) with tmp = (r0 - cr) / dn, the operands
\* of the subtraction swapped: the center moves away from b.
extend_bs_away(s, b) ==
    IF maximized(s) THEN s
    ELSE IF maximized(b) THEN maximize(s)
    ELSE IF unset(b) THEN s
    ELSE IF unset(s) THEN b
    ELSE LET r0 == s.radius
             r1 == b.radius
             xn == Sub(b.center[1], s.center[1])
             yn == Sub(b.center[2], s.center[2])
             zn == Sub(b.center[3], s.center[3])
             dn == Sqrt(Add(Add(Mul(xn, xn), Mul(yn, yn)), Mul(zn, zn)))
             cr == Div(Add(Add(dn, r0), r1), Q(2))
             tmp == Div(Sub(r0, cr), dn)
         IN  IF fequal(dn, Q(0)) THEN s
             ELSE IF Less(Add(dn, r1), r0) THEN s
             ELSE IF Less(Add(dn, r0), r1) THEN b
             ELSE Sphere(vec3f(Add(s.center[1], Mul(xn, tmp)),
                               Add(s.center[2], Mul(yn, tmp)),
                               Add(s.center[3], Mul(zn, tmp))), cr)

\* bounding_sphere::extend(const bounding_sphere & b)
extend_bs(s, b) ==
    IF maximized(s) THEN s
    ELSE IF maximized(b) THEN maximize(s)
    ELSE IF unset(b) THEN s
    ELSE IF unset(s) THEN b
    ELSE LET x0 == s.center[1]
             y0 == s.center[2]
             z0 == s.center[3]
             r0 == s.radius
             x1 == b.center[1]
             y1 == b.center[2]
             z1 == b.center[3]
             r1 == b.radius
             xn == Sub(x1, x0)
             yn == Sub(y1, y0)
             zn == Sub(z1, z0)
             dn == Sqrt(Add(Add(Mul(xn, xn), Mul(yn, yn)), Mul(zn, zn)))
             cr == Div(Add(Add(dn, r0), r1), Q(2))
             tmp == Div(Sub(cr, r0), dn)
             cx == Add(x0, Mul(xn, tmp))
             cy == Add(y0, Mul(yn, tmp))
             cz == Add(z0, Mul(zn, tmp))
         IN  IF fequal(dn, Q(0)) THEN s
             ELSE IF Less(Add(dn, r1), r0) THEN s
             ELSE IF Less(Add(dn, r0), r1) THEN b
             ELSE Sphere(vec3f(cx, cy, cz), cr)

\* The first loop of enclose (lines 499-508): from index i on, min_p and
\* max_p hold, per axis, the first point with the least and the greatest
\* coordinate.
RECURSIVE scan(_, _, _, _)
scan(points, i, min_p, max_p) ==
    IF i > Len(points) THEN <<min_p, max_p>>
    ELSE LET pi == points[i]
             mn == [k \in 1..3 |-> IF Less(pi[k], min_p[k][k]) THEN pi ELSE min_p[k]]
             mx == [k \in 1..3 |-> IF Less(max_p[k][k], pi[k]) THEN pi ELSE max_p[k]]
         IN  scan(points, i + 1, mn, mx)

\* enclose without its last loop: the seeded sphere is the result.
extend_all_skipped(s, points, i) == s

\* The last loop of enclose (line 539): extend by every point in turn.
RECURSIVE extend_all(_, _, _)
extend_all(s, points, i) ==
    IF i > Len(points) THEN s
    ELSE extend_all(extend_p(s, points[i]), points, i + 1)

\* enclose without its first statement.
reset_skipped(s) == s

\* *this = bounding_sphere(), the first statement of enclose.
reset(s) == bounding_sphere

\* enclose up to its last loop (lines 492-537): the sphere seeded from the
\* extremal pair of the axis of greatest span, its radius the length of the
\* center vector.
enclose_seed(points) ==
    LET first == [k \in 1..3 |-> points[1]]
        mm == scan(points, 2, first, first)
        min_p == mm[1]
        max_p == mm[2]
        spanx == VSub(max_p[1], min_p[1])
        dx == dot(spanx, spanx)
        spany == VSub(max_p[2], min_p[2])
        dy == dot(spany, spany)
        spanz == VSub(max_p[3], min_p[3])
        dz == dot(spanz, spanz)
        axis1 == IF Less(dx, dy) THEN 2 ELSE 1
        dist1 == IF Less(dx, dy) THEN dy ELSE dx
        axis == IF Less(dist1, dz) THEN 3 ELSE axis1
        max_span0 == min_p[axis]
        max_span1 == max_p[axis]
        center == VDiv(VAdd(max_span0, max_span1), Q(2))
        radius == Sqrt(dot(center, center))
    IN  Sphere(center, radius)

\* bounding_sphere::enclose(const std::vector<vec3f> & points)
enclose(s, points) ==
    LET start == reset(s)
    IN  IF Len(points) < 1 THEN start
        ELSE extend_all(enclose_seed(points), points, 1)

\* ortho_transform scaling the radius by the element t[0][0] instead of by
\* the length of the first column.
ortho_transform_element(s, t) ==
    IF maximized(s) THEN s
    ELSE IF unset(s) THEN s
    ELSE Sphere(VMulMat(s.center, t), Mul(s.radius, t[1][1]))

\* bounding_sphere::ortho_transform(const mat4f & t)
ortho_transform(s, t) ==
    IF maximized(s) THEN s
    ELSE IF unset(s) THEN s
    ELSE Sphere(VMulMat(s.center, t),
                Mul(s.radius, length(vec3f(t[1][1], t[2][1], t[3][1]))))

\* bounding_sphere::transform(const mat4f & t)
transform(s, t) ==
    IF maximized(s) THEN s
    ELSE IF unset(s) THEN s
    ELSE LET x_scale_v == vec3f(t[1][1], t[2][1], t[3][1])
             y_scale_v == vec3f(t[1][2], t[2][2], t[3][2])
             z_scale_v == vec3f(t[1][3], t[2][3], t[3][3])
             scale_x == length(x_scale_v)
             scale_y == length(y_scale_v)
             scale_z == length(z_scale_v)
             max1 == IF Less(scale_x, scale_y) THEN scale_y ELSE scale_x
             max_scale == IF Less(max1, scale_z) THEN scale_z ELSE max1
         IN  Sphere(VMulMat(s.center, t), Mul(s.radius, max_scale))

\* sphere_plane_distance(bs, N, D): N is the plane <<Nx, Ny, Nz, D>>.
sphere_plane_distance(bs, N, D) ==
    LET c == bs.center
    IN  Sub(Add(Add(Mul(N[1], c[1]), Mul(N[2], c[2])), Mul(N[3], c[3])), D)

\* plane_test with `d <= -radius_` for outside.
plane_test_touching_outside(s, d, c) ==
    IF c = "outside" THEN "outside"
    ELSE IF Leq(d, Neg(s.radius)) THEN "outside"
    ELSE IF Less(d, s.radius) THEN "partial"
    ELSE c

\* plane_test with `d <= radius_` for partial.
plane_test_touching_partial(s, d, c) ==
    IF c = "outside" THEN "outside"
    ELSE IF Less(d, Neg(s.radius)) THEN "outside"
    ELSE IF Leq(d, s.radius) THEN "partial"
    ELSE c

\* One plane of intersect_frustum, the code being `code` so far:
\*   if (d < -radius_) return outside;  if (d < radius_) code = partial;
\* "outside" is the early return, which no later plane changes.
plane_test(s, d, c) ==
    IF c = "outside" THEN "outside"
    ELSE IF Less(d, Neg(s.radius)) THEN "outside"
    ELSE IF Less(d, s.radius) THEN "partial"
    ELSE c

\* bounding_sphere::intersect_frustum(const openvrml::frustum & frustum)
intersect_frustum(s, frustum) ==
    IF maximized(s) THEN "partial"
    ELSE IF unset(s) THEN "partial"
    ELSE LET znear == Neg(frustum.z_near)
             zfar == Neg(frustum.z_far)
             c1 == plane_test(s, Sub(znear, s.center[3]), "inside")
             c2 == plane_test(s, Sub(s.center[3], zfar), c1)
             c3 == plane_test(s, sphere_plane_distance(s, frustum.top_plane,
                                                       frustum.top_plane[4]), c2)
             c4 == plane_test(s, sphere_plane_distance(s, frustum.bot_plane,
                                                       frustum.bot_plane[4]), c3)
             c5 == plane_test(s, sphere_plane_distance(s, frustum.left_plane,
                                                       frustum.left_plane[4]), c4)
             c6 == plane_test(s, sphere_plane_distance(s, frustum.right_plane,
                                                       frustum.right_plane[4]), c5)
         IN  c6

----------------------------------------------------------------------------
(* The inputs.                                                             *)

\* Operations that change the sphere in one run.
MaxSteps == 2

\* Points in one call of enclose.
MaxLen == 2

\* The points: the corners of a triangle whose sides (3, 4, 5) are rational.
Points == {V(0, 0, 0), V(3, 0, 0), V(3, 4, 0)}

PointSeqs == UNION {[1..n -> Points] : n \in 0..MaxLen}

\* The points of the enclose runs: Points, their mirror images and two more
\* points of the same lines, so that an extremal pair can have its midpoint
\* at the origin or nearer to it than to the pair.
EnclosePoints ==
    Points \cup {V(-3, 0, 0), V(-3, -4, 0), V(6, 8, 0), V(0, 0, 4)}

EnclosePointSeqs == UNION {[1..n -> EnclosePoints] : n \in 0..MaxLen}

Radii == {Q(1), Q(2), Q(5)}

\* Spheres: unset, maximized, and set ones; the last two are spheres in
\* front of the eye of a frustum, which looks down -z.
Spheres ==
    {bounding_sphere, maximize(bounding_sphere)}
    \cup {Sphere(c, r) : c \in Points, r \in Radii}
    \cup {Sphere(V(0, 0, -5), Q(1)), Sphere(vec3f(Q(0), Q(0), Norm(-1, 2)), Q(1))}

Row(a, b, c, d) == <<Q(a), Q(b), Q(c), Q(d)>>

\* mat4f values, rows first, the translation in the last row: a translation,
\* a quarter turn about z, a uniform scale, a turn about z with a uniform
\* scale of 5, and a non-uniform scale.
Translation == <<Row(1, 0, 0, 0), Row(0, 1, 0, 0), Row(0, 0, 1, 0), Row(1, 2, 3, 1)>>

QuarterTurn == <<Row(0, 1, 0, 0), Row(-1, 0, 0, 0), Row(0, 0, 1, 0), Row(0, 0, 0, 1)>>

UniformScale == <<Row(2, 0, 0, 0), Row(0, 2, 0, 0), Row(0, 0, 2, 0), Row(0, 0, 0, 1)>>

TurnScale == <<Row(3, 4, 0, 0), Row(-4, 3, 0, 0), Row(0, 0, 5, 0), Row(3, 0, 0, 1)>>

NonUniformScale == <<Row(1, 0, 0, 0), Row(0, 2, 0, 0), Row(0, 0, 3, 0), Row(0, 0, 0, 1)>>

Matrices == {Translation, QuarterTurn, UniformScale, TurnScale, NonUniformScale}

\* frustum values: z_near, z_far and four planes <<Nx, Ny, Nz, D>>; the
\* side planes are at signed distance -D from the origin.
Frustum(n, f, t, b, l, r) ==
    [z_near |-> n, z_far |-> f, top_plane |-> t, bot_plane |-> b,
     left_plane |-> l, right_plane |-> r]

\* A side plane with unit normal N and offset D = o.
Plane(N, o) == <<Q(N[1]), Q(N[2]), Q(N[3]), Q(o)>>

\* The offsets: a sphere of radius 1 at the origin is inside a plane of
\* offset -3 (a wide plane), touches one of offset -1 from inside and one of
\* offset 1 from outside, and is outside one of offset 3.
Offsets == {-3, -1, 1, 3}

\* The side planes' offsets in the order top, bottom, left, right; at most
\* one of them is not wide.
SideOffsets == {o \in [1..4 -> Offsets] : Cardinality({k \in 1..4 : o[k] # -3}) <= 1}

Frusta ==
    {Frustum(Q(n), Q(f), Plane(<<0, -1, 0>>, o[1]), Plane(<<0, 1, 0>>, o[2]),
             Plane(<<1, 0, 0>>, o[3]), Plane(<<-1, 0, 0>>, o[4])) :
        n \in {1, 2}, f \in {4, 10}, o \in SideOffsets}

----------------------------------------------------------------------------
(* The state machine: one bounding_sphere and the operations on it.        *)

this == Sphere(center_, radius_)

\* No square root taken for s was irrational.
Representable(s) == IsVec(s.center) /\ IsNum(s.radius)

\* The ghost variables of a run that starts with the sphere s.
Start(s) ==
    /\ center_ = s.center
    /\ radius_ = s.radius
    /\ op = "init"
    /\ arg = <<>>
    /\ pre = s
    /\ again = FALSE
    /\ code = "none"
    /\ invoked = FALSE
    /\ steps = 0

\* A sphere as its constructor leaves it.
Init == Start(bounding_sphere)

\* A sphere in any of its states: as center(c) and radius(r), or earlier
\* operations, can leave it.
InitAny == \E s \in Spheres : Start(s)

\* The operation `name` with argument a leaves the sphere new.
Apply(name, a, new) ==
    /\ steps < MaxSteps
    /\ Representable(new)
    /\ center_' = new.center
    /\ radius_' = new.radius
    /\ op' = name
    /\ arg' = a
    /\ pre' = this
    /\ again' = (name = "extend_bs" /\ op = "extend_bs" /\ arg = a)
    /\ steps' = steps + 1

Maximize ==
    /\ Apply("maximize", <<>>, maximize(this))
    /\ invoked' = TRUE
    /\ code' = "none"

ExtendPoint ==
    \E p \in Points :
        /\ Apply("extend_p", p, extend_p(this, p))
        /\ UNCHANGED invoked
        /\ code' = "none"

ExtendSphere ==
    \E b \in Spheres :
        /\ Apply("extend_bs", b, extend_bs(this, b))
        /\ invoked' = (invoked \/ maximized(b))
        /\ code' = "none"

Enclose ==
    \E points \in PointSeqs :
        /\ Apply("enclose", points, enclose(this, points))
        /\ invoked' = FALSE
        /\ code' = "none"

OrthoTransform ==
    \E t \in Matrices :
        /\ Apply("ortho_transform", t, ortho_transform(this, t))
        /\ UNCHANGED invoked
        /\ code' = "none"

Transform ==
    \E t \in Matrices :
        /\ Apply("transform", t, transform(this, t))
        /\ UNCHANGED invoked
        /\ code' = "none"

\* The one enclose of a run; enclose reads nothing of the sphere it is
\* called on, so a second call in the run would repeat the first.
EncloseOnce ==
    \E points \in EnclosePointSeqs :
        /\ steps = 0
        /\ Apply("enclose", points, enclose(this, points))
        /\ invoked' = FALSE
        /\ code' = "none"

\* A const member: the sphere stays as it is, and the call does not count
\* among the operations of the run.
IntersectFrustum ==
    \E frustum \in Frusta :
        /\ code' = intersect_frustum(this, frustum)
        /\ op' = "intersect_frustum"
        /\ arg' = frustum
        /\ pre' = this
        /\ again' = FALSE
        /\ UNCHANGED <<center_, radius_, invoked, steps>>

\* The operations that change the sphere, on a sphere created unset.
Next ==
    \/ Maximize
    \/ ExtendPoint
    \/ ExtendSphere
    \/ Enclose
    \/ OrthoTransform
    \/ Transform

Spec == Init /\ [][Next]_vars

\* The two merges, on a sphere in any state.
NextExtend ==
    \/ ExtendPoint
    \/ ExtendSphere

SpecExtend == InitAny /\ [][NextExtend]_vars

\* The frustum test, on a sphere in any state.
NextFrustum == IntersectFrustum

SpecFrustum == InitAny /\ [][NextFrustum]_vars

\* enclose, on a sphere in any state.
NextEnclose == EncloseOnce

SpecEnclose == InitAny /\ [][NextEnclose]_vars

----------------------------------------------------------------------------
(* The vocabulary of the properties.                                       *)

\* s is set: neither unset nor maximized, with a radius >= 0.
set(s) == ~unset(s) /\ ~maximized(s) /\ Leq(Q(0), s.radius)

\* The square of the distance between the points a and b.
Dist2(a, b) == dot(VSub(a, b), VSub(a, b))

Square(a) == Mul(a, a)

\* distance(a.center, b.center) + b.radius <= a.radius, free of the root:
\* b.radius <= a.radius and distance^2 <= (a.radius - b.radius)^2.
Encloses(a, b) ==
    /\ Leq(b.radius, a.radius)
    /\ Leq(Dist2(a.center, b.center), Square(Sub(a.radius, b.radius)))

\* distance(p, s.center) <= s.radius
Within(p, s) == Leq(Dist2(p, s.center), Square(s.radius))

----------------------------------------------------------------------------
(* The merges: extend(sphere) and extend(point).                           *)

\* C1: after A.extend(B), with A not maximized and B set, A encloses B and,
\* where A was set before the call, the sphere A was before, wherever the two
\* centers lie.
C1_ExtendEncloses ==
    (op = "extend_bs" /\ ~maximized(pre) /\ set(arg)) =>
        /\ Encloses(this, arg)
        /\ set(pre) => Encloses(this, pre)

\* C2: for set spheres A and B, A.extend(B) leaves A as it was if A fully
\* contains B, and makes A equal to B if B fully contains A.
C2_Containment ==
    (op = "extend_bs" /\ set(pre) /\ set(arg)) =>
        /\ Encloses(pre, arg) => this = pre
        /\ Encloses(arg, pre) => this = arg

C7_ExtendPoint ==
    op = "extend_p" =>
        /\ (set(pre) /\ Within(arg, pre)) => this = pre
        /\ unset(pre) => this = Sphere(arg, Q(0))

\* C7's case: a point on the surface of a set sphere, off its center.
C7_Witness ==
    /\ op = "extend_p"
    /\ set(pre)
    /\ arg # pre.center
    /\ Dist2(arg, pre.center) = Square(pre.radius)
    /\ this = pre

----------------------------------------------------------------------------
(* enclose.                                                                *)

\* C5: enclose([P]) leaves the sphere with radius 0 and center P, for every
\* point P and every prior state.
C5_EncloseOne ==
    (op = "enclose" /\ Len(arg) = 1) => this = Sphere(arg[1], Q(0))

\* C8: enclose resets the sphere: whatever the state before, the radius and
\* maximized() after enclose(points) are the same, and so is the center when
\* points is not empty; enclose of no points leaves the sphere unset, even
\* one that was maximized.
C8_EncloseResets ==
    op = "enclose" =>
        /\ \A s \in {bounding_sphere, maximize(bounding_sphere), Sphere(V(3, 4, 0), Q(2))} :
               LET e == enclose(s, arg)
               IN  /\ e.radius = this.radius
                   /\ maximized(e) = maximized(this)
                   /\ Len(arg) > 0 => e.center = this.center
        /\ Len(arg) = 0 => (unset(this) /\ ~maximized(this))

\* C8's case: enclose of no points on a maximized sphere.
C8_Witness ==
    /\ op = "enclose"
    /\ maximized(pre)
    /\ Len(arg) = 0
    /\ unset(this)

\* The sphere of enclose(points) after the first k steps of its last loop.
Pass(points, k) == extend_all(enclose_seed(points), SubSeq(points, 1, k), 1)

----------------------------------------------------------------------------
(* maximize and maximized.                                                 *)

----------------------------------------------------------------------------
(* The transforms.                                                         *)

\* Column j of the upper 3x3 of t.
Column(t, j) == vec3f(t[1][j], t[2][j], t[3][j])

\* The upper 3x3 of t is the identity: t is a pure translation.
IsTranslation(t) ==
    \A i, j \in 1..3 : t[i][j] = (IF i = j THEN Q(1) ELSE Q(0))

\* t is a translation, rotation and uniform scale: an affine matrix whose
\* three columns are orthogonal and of one length, which is not 0.
Orthogonal(t) ==
    /\ \A i \in 1..3 : t[i][4] = Q(0)
    /\ t[4][4] = Q(1)
    /\ \A i, j \in 1..3 :
           IF i = j THEN /\ dot(Column(t, i), Column(t, i)) = dot(Column(t, 1), Column(t, 1))
                         /\ Less(Q(0), dot(Column(t, i), Column(t, i)))
           ELSE dot(Column(t, i), Column(t, j)) = Q(0)

\* C9: for an orthogonal matrix M, transform(M) and ortho_transform(M) leave
\* the same center and radius; both leave an unset or a maximized sphere as
\* it was; a pure translation leaves the radius and shifts the center by the
\* translation vector.
C9_TransformAsOrtho ==
    (op \in {"transform", "ortho_transform"} /\ Orthogonal(arg)) =>
        /\ this = transform(pre, arg)
        /\ this = ortho_transform(pre, arg)
        /\ (unset(pre) \/ maximized(pre)) => this = pre
        /\ (set(pre) /\ IsTranslation(arg)) =>
               this = Sphere(VAdd(pre.center, vec3f(arg[4][1], arg[4][2], arg[4][3])),
                             pre.radius)

\* C9's case: transform by a rotation with a uniform scale, on a set sphere.
C9_Witness ==
    /\ op = "transform"
    /\ set(pre)
    /\ Orthogonal(arg)
    /\ ~IsTranslation(arg)
    /\ arg[1][2] # Q(0)
    /\ this.radius # pre.radius

----------------------------------------------------------------------------
(* intersect_frustum.                                                      *)

\* The six signed distances of s's center: near, far, top, bottom, left,
\* right.
Distances(s, f) ==
    <<Sub(Neg(f.z_near), s.center[3]),
      Add(s.center[3], f.z_far),
      Sub(dot(f.top_plane, s.center), f.top_plane[4]),
      Sub(dot(f.bot_plane, s.center), f.bot_plane[4]),
      Sub(dot(f.left_plane, s.center), f.left_plane[4]),
      Sub(dot(f.right_plane, s.center), f.right_plane[4])>>

\* The reference classification.
Reference(s, f) ==
    IF maximized(s) \/ unset(s) THEN "partial"
    ELSE IF \E k \in 1..6 : Less(Distances(s, f)[k], Neg(s.radius)) THEN "outside"
    ELSE IF \E k \in 1..6 : Less(Distances(s, f)[k], s.radius) THEN "partial"
    ELSE "inside"

\* The origin lies on the inner side of each side plane of f, more than 2
\* from it.
WideSides(f) ==
    \A N \in {f.top_plane, f.bot_plane, f.left_plane, f.right_plane} :
        /\ dot(N, N) = Q(1)
        /\ Less(Q(2), Neg(N[4]))

\* The frustum test of the sphere s with z_near = n, z_far = f and wide side
\* planes has just returned.
Tested(s, n, f) ==
    /\ op = "intersect_frustum"
    /\ pre = s
    /\ arg.z_near = Q(n)
    /\ arg.z_far = Q(f)
    /\ WideSides(arg)

\* C4, as the specification states it: the sphere of radius 1 at the origin
\* is outside a frustum with z_near = 1, z_far = 10 and wide side planes.
C4_Outside == Tested(Sphere(V(0, 0, 0), Q(1)), 1, 10) => code = "outside"

\* C4: the sphere of radius 1 at the origin, with z_near = 1, z_far = 10 and
\* the origin more than 2 inside each side plane, is partial: it touches the
\* near plane, d = -1 being not less than -radius.
C4_Partial == Tested(Sphere(V(0, 0, 0), Q(1)), 1, 10) => code = "partial"

\* C4's case.
C4_Witness == Tested(Sphere(V(0, 0, 0), Q(1)), 1, 10) /\ code = "partial"

\* C10: intersect_frustum returns the reference classification for every
\* sphere and frustum; with z_near = 1, z_far = 10 and wide side planes the
\* sphere of radius 1 at (0, 0, -5) is inside and the one at (0, 0, -1/2) is
\* partial.
C10_Reference ==
    /\ op = "intersect_frustum" => code = Reference(pre, arg)
    /\ Tested(Sphere(V(0, 0, -5), Q(1)), 1, 10) => code = "inside"
    /\ Tested(Sphere(vec3f(Q(0), Q(0), Norm(-1, 2)), Q(1)), 1, 10) => code = "partial"

\* C10's case: a set sphere that a side plane alone puts outside.
C10_Witness ==
    /\ op = "intersect_frustum"
    /\ set(pre)
    /\ code = "outside"
    /\ \A k \in 1..2 : ~Less(Distances(pre, arg)[k], pre.radius)

====
